---------------------------- MODULE Spec2Model ----------------------------
(***************************************************************************)
(* Balance-synchronisation pipeline of the Polygon DAI monitor:            *)
(*   storageService  (getWallets, saveWallets, getLastUpdateTime,          *)
(*                    setLastUpdateTime, updateWalletHistory)              *)
(*   web3Service     (fetchBlockNumber, fetchBalancesBatch)                *)
(*   App             (initData, handleSyncBalances, handleUploadAddresses, *)
(*                    handleDeleteWallet, handlePurge)                     *)
(* Every action is the code that runs between two network awaits of one    *)
(* handler: the browser runs it to completion before any other handler.    *)
(***************************************************************************)
EXTENDS Integers, Sequences, FiniteSets, TLC

(***************************************************************************)
(* Bounds of the exploration.                                              *)
(***************************************************************************)
MaxTime == 3
MaxLedgerTime == 15
MaxBal == 1
MaxOps == 2
MaxSeedLen == 2
MaxEvents == 2

MaxLocalEvents == 4
\* fetchBalancesBatch on its own: the longest request, the reconfigurations
MaxAddresses == 250
MaxReinit == 1

(***************************************************************************)
(* Program constants.                                                      *)
(***************************************************************************)
\* updateWalletHistory: "if (newHistory.length > 7)"
MaxHistory == 7
\* fetchBalancesBatch: "const CHUNK_SIZE = 100"
CHUNK_SIZE == 100
\* the clock counts half days: hoursDiff > 24 is "more than TicksPerDay ticks"
TicksPerDay == 2

(***************************************************************************)
(* Values.                                                                 *)
(***************************************************************************)
\* An address is its hex digits; the model keeps one digit, in either case.
Addresses == {<<"a">>, <<"A">>, <<"b">>, <<"c">>}

\* String.prototype.toLowerCase, digit by digit
LowerChar(c) ==
    CASE c = "A" -> "a"
      [] c = "B" -> "b"
      [] c = "C" -> "c"
      [] OTHER -> c

toLowerCase(s) == [i \in DOMAIN s |-> LowerChar(s[i])]

\* Date.prototype.toISOString: "<day>T<time of day>Z" of a clock value
toISOString(t) == <<t \div TicksPerDay, t % TicksPerDay>>

\* new Date(iso).getTime()
getTime(iso) == iso[1] * TicksPerDay + iso[2]

\* currentDate.split('T')[0]
DatePrefix(iso) == iso[1]

\* date.startsWith(todayStr)
startsWith(iso, prefix) == iso[1] = prefix

\* the empty string, as setLastUpdateTime('') stores it
EmptyString == <<>>

\* JavaScript truthiness of a string
Truthy(s) == Len(s) > 0

Abs(x) == IF x < 0 THEN -x ELSE x

\* localStorage.getItem / the row of app_data: a missing key, or a JSON value
Missing == [present |-> FALSE, value |-> <<>>]

\* JSON.stringify of a value written under a key
Stored(v) == [present |-> TRUE, value |-> v]

\* a cached text that is no JSON: JSON.parse throws a SyntaxError on it
Unparseable == [present |-> TRUE, value |-> <<[syntaxError |-> TRUE]>>]

ParseThrows(item) == item = Unparseable

\* data ? JSON.parse(data) : [], for a text that parses
ParseOrEmpty(item) == IF item.present THEN item.value ELSE <<>>

(***************************************************************************)
(* HistoryLedger: updateWalletHistory                                      *)
(***************************************************************************)
\* Variants of the ledger, each without one of its steps:
\* without the shift of line 393
updateWalletHistoryUnbounded(wallet, newBalance, currentDate) ==
    LET h == wallet.history
        entry == [date |-> currentDate, balance |-> newBalance]
        sameDay == Len(h) > 0
                   /\ startsWith(h[Len(h)].date, DatePrefix(currentDate))
    IN  [wallet EXCEPT !.currentBalance = newBalance,
                       !.lastUpdated = currentDate,
                       !.history = IF sameDay
                                   THEN [h EXCEPT ![Len(h)] = entry]
                                   ELSE Append(h, entry)]

\* without the same-day test of line 383
updateWalletHistoryAppendOnly(wallet, newBalance, currentDate) ==
    LET pushed == Append(wallet.history,
                         [date |-> currentDate, balance |-> newBalance])
    IN  [wallet EXCEPT !.currentBalance = newBalance,
                       !.lastUpdated = currentDate,
                       !.history = IF Len(pushed) > MaxHistory
                                   THEN Tail(pushed) ELSE pushed]

\* without the currentBalance of line 398
updateWalletHistoryStaleBalance(wallet, newBalance, currentDate) ==
    LET h == wallet.history
        entry == [date |-> currentDate, balance |-> newBalance]
        sameDay == Len(h) > 0
                   /\ startsWith(h[Len(h)].date, DatePrefix(currentDate))
        pushed == IF sameDay
                  THEN [h EXCEPT ![Len(h)] = entry]
                  ELSE Append(h, entry)
    IN  [wallet EXCEPT !.lastUpdated = currentDate,
                       !.history = IF Len(pushed) > MaxHistory
                                   THEN Tail(pushed) ELSE pushed]

\* with the observed balance taken as the new baseline
updateWalletHistoryRebased(wallet, newBalance, currentDate) ==
    LET h == wallet.history
        entry == [date |-> currentDate, balance |-> newBalance]
        sameDay == Len(h) > 0
                   /\ startsWith(h[Len(h)].date, DatePrefix(currentDate))
        pushed == IF sameDay
                  THEN [h EXCEPT ![Len(h)] = entry]
                  ELSE Append(h, entry)
    IN  [wallet EXCEPT !.initialBalance = newBalance,
                       !.currentBalance = newBalance,
                       !.lastUpdated = currentDate,
                       !.history = IF Len(pushed) > MaxHistory
                                   THEN Tail(pushed) ELSE pushed]

\* lines 372-402
updateWalletHistory(wallet, newBalance, currentDate) ==
    LET h == wallet.history
        todayStr == DatePrefix(currentDate)
        entry == [date |-> currentDate, balance |-> newBalance]
        sameDay == Len(h) > 0 /\ startsWith(h[Len(h)].date, todayStr)
        pushed == IF sameDay
                  THEN [h EXCEPT ![Len(h)] = entry]
                  ELSE Append(h, entry)
        newHistory == IF Len(pushed) > MaxHistory THEN Tail(pushed) ELSE pushed
    IN  [wallet EXCEPT !.currentBalance = newBalance,
                       !.lastUpdated = currentDate,
                       !.history = newHistory]


(***************************************************************************)
(* State.                                                                  *)
(***************************************************************************)
VARIABLES
    scope,          \* which component is exercised: "store", "clients",
                    \* "app", "ledger", "admin", "fold" or "reader"
    remoteEnabled,  \* storageService: supabase !== null (fixed at start-up)
    now,            \* the wall clock, in ticks
    localWallets,   \* localStorage[STORAGE_KEY]
    localLast,      \* localStorage[LAST_UPDATE_KEY]
    remoteWallets,  \* app_data row 'wallets'
    remoteLast,     \* app_data row 'last_update'
    wallets,        \* App state: wallets
    lastUpdate,     \* App state: lastUpdate
    isLoading,      \* App state: isLoading
    ops,            \* the asynchronous calls in flight, one per slot
    events,         \* how many times the user acted on the page
    fold,           \* updateWalletHistory applied on its own: input and results
    client,         \* web3Service: the module-level client (its endpoint)
    fetch,          \* web3Service: the fetchBalancesBatch call in flight
    deleted         \* the addresses another client deleted from the remote row

\* the state of the functions exercised on their own
unitVars == <<fold, client, fetch, deleted>>

vars == <<scope, remoteEnabled, now, localWallets, localLast, remoteWallets,
          remoteLast, wallets, lastUpdate, isLoading, ops, events, unitVars>>

\* updateWalletHistory not being exercised on its own
NoFold ==
    [pc |-> "none", wallet |-> <<>>, balance |-> 0, date |-> <<>>,
     once |-> <<>>, twice |-> <<>>]

\* no fetchBalancesBatch in flight
NoFetch ==
    [pc |-> "none",
     addresses |-> <<>>,    \* the argument
     i |-> 0,               \* the loop index
     resultsMap |-> <<>>,   \* the Map being filled
     requests |-> <<>>,     \* the aggregate3 calls issued, in order
     results |-> <<>>,      \* what they returned
     began |-> 0,           \* the client when the call began
     returned |-> <<>>]     \* the Map the call resolved with

\* One asynchronous call: the handler it belongs to (kind), the await it is
\* suspended at (pc), and its local variables.
Idle ==
    [kind |-> "idle", pc |-> "idle",
     cur |-> <<>>,          \* the collection the call works on
     entries |-> <<>>,      \* handleUploadAddresses: newEntries
     block |-> 0,           \* handleUploadAddresses: currentBlock
     iso |-> <<>>,          \* nowISO
     pre |-> [local |-> Missing, remote |-> Missing],  \* stores when it began
     read |-> "none",       \* how the select of 'wallets' ended
     wrote |-> "none",      \* how the last upsert of 'wallets' ended
     attempts |-> 0,        \* upserts of 'wallets' issued
     ret |-> <<>>,          \* what getWallets returned
     result |-> "none",     \* "ok" once the call returned
     prev |-> [settled |-> FALSE, ret |-> <<>>]]  \* the call before it

Slots == 1..(IF scope = "app" THEN MaxOps ELSE 1)

Free(i) == ops[i].pc \in {"idle", "done"}

\* a new call takes the first slot that is free
FirstFree(i) == Free(i) /\ \A j \in 1..(i - 1) : ~Free(j)

\* the user acts on the page a bounded number of times
Budget ==
    \/ scope = "ledger"
    \/ events < (IF remoteEnabled THEN MaxEvents ELSE MaxLocalEvents)

Spend == IF scope = "ledger" THEN events ELSE events + 1

\* alert() is modal: while it is open the page runs nothing else
Blocked == \E i \in 1..MaxOps : ops[i].pc = "alert"

\* the store is called directly, by one client or beside another
StoreScope == scope \in {"store", "clients"}

\* What a call leaves behind once it returned is kept for the store's own
\* calls only; a handler of the application leaves nothing.
Snapshot ==
    IF StoreScope THEN [local |-> localWallets, remote |-> remoteWallets]
    ELSE Idle.pre

Tag(x) == IF StoreScope THEN x ELSE "none"

Returned(op) ==
    IF StoreScope THEN [op EXCEPT !.pc = "done", !.result = "ok"] ELSE Idle

\* What the call before left, for a client that loads again: whether it was
\* a load whose remote calls all succeeded, and what it returned.
Prior(op) ==
    IF scope = "clients"
    THEN [settled |-> /\ op.kind = "load" /\ op.pc = "done"
                      /\ op.result = "ok"
                      /\ op.read \in {"ok", "notfound"}
                      /\ op.wrote \in {"none", "ok"},
          ret |-> op.ret]
    ELSE Idle.prev

\* getWallets rejected; initData has no catch and ends there
Threw(op) ==
    IF StoreScope THEN [op EXCEPT !.pc = "done", !.result = "rejected"]
    ELSE Idle

\* the catch block of a handler called alert(): lines 459, 502
Alerting(op) == [Idle EXCEPT !.kind = op.kind, !.pc = "alert", !.iso = op.iso]

Outcomes == {"ok", "error", "throw"}

LowerAddrs(ws) == {toLowerCase(ws[k].address) : k \in DOMAIN ws}

AddressesOf(ws) == {ws[k].address : k \in DOMAIN ws}

\* saveWallets as first written (lines 75-91) stored the local copy only after
\* the upsert had settled: until then the copy is the old one
saveWalletsLocalLate(ws) == localWallets

\* line 320, the synchronous part of saveWallets
saveWalletsLocal(ws) == Stored(ws)

\* lines 326-337: the row after the upsert settled
saveWalletsRemote(outcome, ws, row) == IF outcome = "ok" THEN Stored(ws) ELSE row

(***************************************************************************)
(* WalletStore: getWallets                                                 *)
(***************************************************************************)
\* a select that hands the stored row back even when it reports an error
cloudWalletsDespiteError(outcome, row) ==
    IF outcome # "throw" /\ row.present THEN row.value ELSE <<>>

\* lines 256-266: { data, error } of the select; data?.value || []
cloudWalletsOf(outcome, row) ==
    IF outcome = "ok" /\ row.present THEN row.value ELSE <<>>

\* how the select ended, PGRST116 being "not found"
ReadTag(outcome, row) ==
    IF outcome = "ok" /\ ~row.present THEN "notfound" ELSE outcome

\* a merge that pushes every local wallet
mergeLocalAll(cloud, localItem) == cloud \o ParseOrEmpty(localItem)

\* a merge whose lookup compares the addresses as they are written
mergeLocalExact(cloud, localItem) ==
    LET localW == ParseOrEmpty(localItem)
        IsNew(w) == w.address \notin AddressesOf(cloud)
    IN  cloud \o SelectSeq(localW, IsNew)

\* lines 272-288: push every local wallet whose address the cloud lacks
mergeLocal(cloud, localItem) ==
    LET localW == ParseOrEmpty(localItem)
        cloudMap == LowerAddrs(cloud)
        IsNew(w) == toLowerCase(w.address) \notin cloudMap
    IN  cloud \o SelectSeq(localW, IsNew)

\* a flag that is set whenever the cache holds a wallet
hasNewDataIfLocal(cloud, merged) == Len(merged) > 0

\* lines 279-285: set when a local wallet was pushed
hasNewData(cloud, merged) == Len(merged) > Len(cloud)

\* a load that leaves the cache as it found it
localStorageKept(cloudWallets) == localWallets

\* line 301: localStorage.setItem(STORAGE_KEY, JSON.stringify(cloudWallets))
localStorageSetItem(cloudWallets) == Stored(cloudWallets)

\* hoursDiff = Math.abs(now - lastDate) / 36e5
hoursDiff(t, lastT) == (Abs(t - lastT) * 24) \div TicksPerDay

\* initData lines 401-411, and handleSyncBalances up to its first await
AutoUpdate(i, op, last) ==
    LET due == last.present /\ Truthy(last.value)
               /\ hoursDiff(now, getTime(last.value)) > 24
    IN  /\ lastUpdate' = last
        /\ IF due /\ Len(op.cur) > 0
           THEN /\ isLoading' = TRUE
                /\ ops' = [ops EXCEPT ![i] =
                             [Idle EXCEPT !.kind = "sync", !.pc = "sync_fetch",
                                          !.cur = op.cur]]
           ELSE /\ UNCHANGED isLoading
                /\ ops' = [ops EXCEPT ![i] = Returned(op)]

\* getWallets returns ret: to its caller (store) or into initData (line 398)
LoadReturn(i, op, ret) ==
    IF op.kind = "load"
    THEN /\ ops' = [ops EXCEPT ![i] = Returned([op EXCEPT !.ret = ret])]
         /\ UNCHANGED <<wallets, lastUpdate, isLoading>>
    ELSE /\ wallets' = ret
         /\ IF remoteEnabled
            THEN /\ ops' = [ops EXCEPT ![i] =
                              [Idle EXCEPT !.kind = "init",
                                           !.pc = "last_select", !.cur = ret]]
                 /\ UNCHANGED <<lastUpdate, isLoading>>
            ELSE AutoUpdate(i, [op EXCEPT !.cur = ret], localLast)

\* JSON.parse threw outside the try block, or inside its catch block
\* (lines 274, 309, 315): the promise of getWallets rejects
LoadThrow(i, op) ==
    /\ ops' = [ops EXCEPT ![i] = Threw(op)]
    /\ UNCHANGED <<wallets, lastUpdate, isLoading>>

\* lines 313-315, and 308-309 in the catch block
LoadLocal(i, op) ==
    IF ParseThrows(localWallets) THEN LoadThrow(i, op)
    ELSE LoadReturn(i, op, ParseOrEmpty(localWallets))

\* getWallets(), called on the store directly
getWalletsCall(i) ==
    /\ StoreScope
    /\ FirstFree(i)
    /\ LET op == [Idle EXCEPT !.kind = "load", !.pre = Snapshot,
                              !.prev = Prior(ops[i])]
       IN  IF remoteEnabled
           THEN /\ ops' = [ops EXCEPT ![i] = [op EXCEPT !.pc = "load_select"]]
                /\ UNCHANGED <<wallets, lastUpdate, isLoading>>
           ELSE LoadLocal(i, op)
    /\ UNCHANGED <<unitVars, scope, remoteEnabled, now, localWallets, localLast,
                   remoteWallets, remoteLast, events>>

\* the select of 'wallets' settles: lines 262-309
getWalletsSelect(i, outcome) ==
    /\ ops[i].pc = "load_select"
    /\ ~Blocked
    /\ LET op == [ops[i] EXCEPT !.read = Tag(ReadTag(outcome, remoteWallets))]
           cloud == cloudWalletsOf(outcome, remoteWallets)
           merged == mergeLocal(cloud, localWallets)
       IN  IF outcome = "throw" \/ ParseThrows(localWallets)
           THEN \* the catch block (a throw of line 274 lands there too)
                /\ LoadLocal(i, op)
                /\ UNCHANGED localWallets
           ELSE IF hasNewData(cloud, merged)
           THEN /\ localWallets' = saveWalletsLocal(merged)
                /\ ops' = [ops EXCEPT ![i] =
                             [op EXCEPT !.pc = "save_upsert", !.cur = merged,
                                        !.attempts = @ + 1]]
                /\ UNCHANGED <<wallets, lastUpdate, isLoading>>
           ELSE /\ localWallets' = localStorageSetItem(cloud)
                /\ LoadReturn(i, op, cloud)
    /\ UNCHANGED <<unitVars, scope, remoteEnabled, now, localLast, remoteWallets,
                   remoteLast, events>>

(***************************************************************************)
(* WalletStore: saveWallets                                                *)
(***************************************************************************)
\* saveWallets(ws), called on the store directly
saveWalletsCall(i, ws) ==
    /\ scope = "store"
    /\ FirstFree(i)
    /\ localWallets' = saveWalletsLocal(ws)
    /\ LET op == [Idle EXCEPT !.kind = "save", !.pre = Snapshot, !.cur = ws]
       IN  ops' = [ops EXCEPT ![i] =
                     IF remoteEnabled
                     THEN [op EXCEPT !.pc = "save_upsert", !.attempts = 1]
                     ELSE Returned(op)]
    /\ UNCHANGED <<unitVars, scope, remoteEnabled, now, localLast, remoteWallets,
                   remoteLast, wallets, lastUpdate, isLoading, events>>

\* the upsert of 'wallets' settles, and its caller runs on to its next await
saveWalletsUpsert(i, outcome) ==
    /\ ops[i].pc = "save_upsert"
    /\ ~Blocked
    /\ remoteWallets' = saveWalletsRemote(outcome, ops[i].cur, remoteWallets)
    /\ LET op == [ops[i] EXCEPT !.wrote = Tag(outcome)]
       IN  CASE op.kind \in {"save", "delete"} ->
                  /\ ops' = [ops EXCEPT ![i] = Returned(op)]
                  /\ UNCHANGED <<localWallets, localLast, wallets, lastUpdate,
                                 isLoading>>
             [] op.kind \in {"load", "init"} ->
                  \* getWallets lines 301-303
                  /\ localWallets' = localStorageSetItem(op.cur)
                  /\ LoadReturn(i, op, op.cur)
                  /\ UNCHANGED localLast
             [] op.kind \in {"sync", "upload"} ->
                  \* setLastUpdate(nowISO); setLastUpdateTime(nowISO) line 352
                  /\ lastUpdate' = Stored(op.iso)
                  /\ localLast' = Stored(op.iso)
                  /\ ops' = [ops EXCEPT ![i] =
                               [Idle EXCEPT !.kind = op.kind,
                                            !.pc = "last_upsert",
                                            !.iso = op.iso]]
                  /\ UNCHANGED <<localWallets, wallets, isLoading>>
             [] op.kind = "purge" ->
                  \* setLastUpdate(null); setLastUpdateTime('')
                  /\ lastUpdate' = Missing
                  /\ localLast' = Stored(EmptyString)
                  /\ ops' = [ops EXCEPT ![i] =
                               [Idle EXCEPT !.kind = "purge",
                                            !.pc = "last_upsert"]]
                  /\ UNCHANGED <<localWallets, wallets, isLoading>>
    /\ UNCHANGED <<unitVars, scope, remoteEnabled, now, remoteLast, events>>

(***************************************************************************)
(* The store exercised on its own: any stored collections, then any calls. *)
(***************************************************************************)
\* a record as handleUploadAddresses creates it at time 0
Seed(addr, bal) ==
    [address |-> addr, owner |-> <<"S">>, initialBalance |-> bal,
     initialBlock |-> 1, currentBalance |-> bal,
     lastUpdated |-> toISOString(0),
     history |-> <<[date |-> toISOString(0), balance |-> bal]>>]

SeedWallets ==
    {Seed(<<"a">>, 1), Seed(<<"A">>, 1), Seed(<<"b">>, 1), Seed(<<"b">>, 0),
     Seed(<<"c">>, 1)}

UniqueAddresses(ws) ==
    \A j, k \in DOMAIN ws :
        toLowerCase(ws[j].address) = toLowerCase(ws[k].address) => j = k

SeedCollections ==
    {ws \in UNION {[1..n -> SeedWallets] : n \in 0..MaxSeedLen} :
        UniqueAddresses(ws)}

SeedItems == {Missing} \cup {Stored(ws) : ws \in SeedCollections}

InitStore ==
    /\ scope = "store"
    /\ remoteEnabled \in BOOLEAN
    /\ now = 0
    /\ localWallets \in SeedItems
    /\ remoteWallets \in (IF remoteEnabled THEN SeedItems ELSE {Missing})
    /\ localLast = Missing
    /\ remoteLast = Missing
    /\ wallets = <<>>
    /\ lastUpdate = Missing
    /\ isLoading = FALSE
    /\ ops = [i \in 1..MaxOps |-> Idle]
    /\ events = 0
    /\ fold = NoFold
    /\ client = 0
    /\ fetch = NoFetch
    /\ deleted = {}

NextStore ==
    \/ \E i \in Slots : getWalletsCall(i)
    \/ \E i \in Slots, o \in Outcomes : getWalletsSelect(i, o)
    \/ \E i \in Slots, ws \in SeedCollections : saveWalletsCall(i, ws)
    \/ \E i \in Slots, o \in Outcomes : saveWalletsUpsert(i, o)

SpecStore == InitStore /\ [][NextStore]_vars

\* the store over a local cache that an earlier version, an extension or the
\* user left unparseable
InitCorrupt ==
    /\ scope = "store"
    /\ remoteEnabled \in BOOLEAN
    /\ now = 0
    /\ localWallets = Unparseable
    /\ remoteWallets \in (IF remoteEnabled THEN SeedItems ELSE {Missing})
    /\ localLast = Missing
    /\ remoteLast = Missing
    /\ wallets = <<>>
    /\ lastUpdate = Missing
    /\ isLoading = FALSE
    /\ ops = [i \in 1..MaxOps |-> Idle]
    /\ events = 0
    /\ fold = NoFold
    /\ client = 0
    /\ fetch = NoFetch
    /\ deleted = {}

SpecCorrupt == InitCorrupt /\ [][NextStore]_vars

(***************************************************************************)
(* Two clients of one remote store: this client's cache and calls, and the *)
(* deletions another client persisted.                                     *)
(***************************************************************************)
\* handleDeleteWallet in another browser (App.tsx lines 509-514): its
\* saveWallets writes that browser's cache and upserts the filtered list
handleDeleteWalletElsewhere(addr) ==
    /\ scope = "clients"
    /\ \A i \in Slots : Free(i)
    /\ addr \in AddressesOf(ParseOrEmpty(remoteWallets))
    /\ LET Keep(w) == w.address # addr
       IN  remoteWallets' =
              saveWalletsRemote("ok", SelectSeq(ParseOrEmpty(remoteWallets), Keep),
                                remoteWallets)
    /\ deleted' = deleted \cup {toLowerCase(addr)}
    /\ UNCHANGED <<fold, client, fetch, scope, remoteEnabled, now, localWallets,
                   localLast, remoteLast, wallets, lastUpdate, isLoading, ops,
                   events>>

\* both clients have loaded the same remote collection
InitClients ==
    /\ scope = "clients"
    /\ remoteEnabled = TRUE
    /\ now = 0
    /\ remoteWallets \in SeedItems \ {Missing}
    /\ localWallets = remoteWallets
    /\ localLast = Missing
    /\ remoteLast = Missing
    /\ wallets = <<>>
    /\ lastUpdate = Missing
    /\ isLoading = FALSE
    /\ ops = [i \in 1..MaxOps |-> Idle]
    /\ events = 0
    /\ fold = NoFold
    /\ client = 0
    /\ fetch = NoFetch
    /\ deleted = {}

NextClients ==
    \/ \E a \in Addresses : handleDeleteWalletElsewhere(a)
    \/ \E i \in Slots : getWalletsCall(i)
    \/ \E i \in Slots, o \in Outcomes : getWalletsSelect(i, o)
    \/ \E i \in Slots, o \in Outcomes : saveWalletsUpsert(i, o)

SpecClients == InitClients /\ [][NextClients]_vars


(***************************************************************************)
(* WalletStore: getLastUpdateTime, setLastUpdateTime                       *)
(***************************************************************************)
\* lines 344-346: data?.value || null, and the local value when it throws
getLastUpdateTime(outcome, row, localItem) ==
    CASE outcome = "throw" -> localItem
      [] outcome = "ok" /\ row.present /\ Truthy(row.value) -> row
      [] OTHER -> Missing

\* line 354: the row after the upsert settled
setLastUpdateTimeRemote(outcome, isoDate, row) ==
    IF outcome = "ok" THEN Stored(isoDate) ELSE row

\* the select of 'last_update' settles in initData (line 400)
getLastUpdateTimeSelect(i, outcome) ==
    /\ ops[i].pc = "last_select"
    /\ ~Blocked
    /\ AutoUpdate(i, ops[i], getLastUpdateTime(outcome, remoteLast, localLast))
    /\ UNCHANGED <<unitVars, scope, remoteEnabled, now, localWallets, localLast,
                   remoteWallets, remoteLast, wallets, events>>

\* the upsert of 'last_update' settles; a rejection reaches the caller's catch
setLastUpdateTimeUpsert(i, outcome) ==
    /\ ops[i].pc = "last_upsert"
    /\ ~Blocked
    /\ remoteLast' = setLastUpdateTimeRemote(outcome, ops[i].iso, remoteLast)
    /\ IF ops[i].kind = "purge"
       THEN \* handlePurge has no catch: the rejection is unhandled
            ops' = [ops EXCEPT ![i] = Idle] /\ UNCHANGED isLoading
       ELSE IF outcome = "throw"
       THEN ops' = [ops EXCEPT ![i] = Alerting(ops[i])] /\ UNCHANGED isLoading
       ELSE ops' = [ops EXCEPT ![i] = Idle] /\ isLoading' = FALSE
    /\ UNCHANGED <<unitVars, scope, remoteEnabled, now, localWallets, localLast,
                   remoteWallets, wallets, lastUpdate, events>>

(***************************************************************************)
(* ChainBalanceReader, as the orchestrator sees it                         *)
(***************************************************************************)
Balances == IF scope = "ledger" THEN {MaxBal} ELSE 0..MaxBal

\* fetchBalancesBatch: every address of the request is a key of the Map,
\* bound to its decoded balance, or to 0 when its sub-call failed
fetchBalancesBatch(addresses) == [addresses -> Balances]

\* fetchBlockNumber: the height, or 0 when the request failed
fetchBlockNumber == IF scope = "ledger" THEN {0, 1} ELSE {1}

\* Map.prototype.get, undefined being a value outside Balances
MapGet(m, key) == IF key \in DOMAIN m THEN m[key] ELSE -1

(***************************************************************************)
(* SyncOrchestrator: App                                                   *)
(***************************************************************************)
Mounted == \A i \in 1..MaxOps : ops[i].pc # "mount"

MountOp == [Idle EXCEPT !.kind = "init", !.pc = "mount"]

\* useEffect: initData up to its first await (lines 392-397)
initData(i) ==
    /\ ops[i].pc = "mount"
    /\ LET op == ops[i]
       IN  IF remoteEnabled
           THEN /\ ops' = [ops EXCEPT ![i] = [op EXCEPT !.pc = "load_select"]]
                /\ UNCHANGED <<wallets, lastUpdate, isLoading>>
           ELSE LoadLocal(i, op)
    /\ UNCHANGED <<unitVars, scope, remoteEnabled, now, localWallets, localLast,
                   remoteWallets, remoteLast, events>>

\* the steps both handlers share after saveWallets returned (lines 455-461)
\* when no remote store is configured
FinishLocal(i, op, iso) ==
    /\ lastUpdate' = Stored(iso)
    /\ localLast' = Stored(iso)
    /\ isLoading' = FALSE
    /\ ops' = [ops EXCEPT ![i] = Idle]

\* lines 453-454: setWallets(ws); saveWallets(ws) up to its await
Persist(i, op, ws, iso) ==
    /\ wallets' = ws
    /\ localWallets' = saveWalletsLocal(ws)
    /\ IF remoteEnabled
       THEN /\ ops' = [ops EXCEPT ![i] =
                         [Idle EXCEPT !.kind = op.kind, !.pc = "save_upsert",
                                      !.cur = ws, !.iso = iso, !.attempts = 1]]
            /\ UNCHANGED <<lastUpdate, localLast, isLoading>>
       ELSE FinishLocal(i, op, iso)

\* "Sync Now" (disabled while isLoading): lines 440-445
handleSyncBalances(i) ==
    /\ scope \in {"app", "ledger"}
    /\ Mounted /\ ~Blocked
    /\ FirstFree(i)
    /\ Budget
    /\ events' = Spend
    /\ ~isLoading
    /\ Len(wallets) > 0
    /\ isLoading' = TRUE
    /\ ops' = [ops EXCEPT ![i] =
                 [Idle EXCEPT !.kind = "sync", !.pc = "sync_fetch",
                              !.cur = wallets]]
    /\ UNCHANGED <<unitVars, scope, remoteEnabled, now, localWallets, localLast,
                   remoteWallets, remoteLast, wallets, lastUpdate>>

\* a sync that folds the balances into the wallet list of the moment
syncUpdatedWalletsOfState(currentWallets, balancesMap, nowISO) ==
    [k \in DOMAIN wallets |->
        LET w == wallets[k]
            got == MapGet(balancesMap, w.address)
            newBal == IF got \in Balances THEN got ELSE w.currentBalance
        IN  updateWalletHistory(w, newBal, nowISO)]

\* a sync that folds only the wallets whose balance moved
syncUpdatedWalletsMoved(currentWallets, balancesMap, nowISO) ==
    [k \in DOMAIN currentWallets |->
        LET w == currentWallets[k]
            got == MapGet(balancesMap, w.address)
            newBal == IF got \in Balances THEN got ELSE w.currentBalance
        IN  IF newBal = w.currentBalance THEN w
            ELSE updateWalletHistory(w, newBal, nowISO)]

\* lines 448-451
syncUpdatedWallets(currentWallets, balancesMap, nowISO) ==
    [k \in DOMAIN currentWallets |->
        LET w == currentWallets[k]
            got == MapGet(balancesMap, w.address)
            newBal == IF got \in Balances THEN got ELSE w.currentBalance
        IN  updateWalletHistory(w, newBal, nowISO)]

\* fetchBalancesBatch resolved: lines 446-454
handleSyncBalancesFetched(i, balancesMap) ==
    /\ ops[i].pc = "sync_fetch"
    /\ ~Blocked
    /\ LET nowISO == toISOString(now)
       IN  Persist(i, ops[i],
                   syncUpdatedWallets(ops[i].cur, balancesMap, nowISO), nowISO)
    /\ UNCHANGED <<unitVars, scope, remoteEnabled, now, remoteWallets, remoteLast,
                   events>>

\* a catch block that stamps the attempt before it reports the failure
handleSyncBalancesFailedStamped(i) ==
    /\ ops[i].pc = "sync_fetch"
    /\ ~Blocked
    /\ lastUpdate' = Stored(toISOString(now))
    /\ localLast' = Stored(toISOString(now))
    /\ ops' = [ops EXCEPT ![i] = Alerting(ops[i])]
    /\ UNCHANGED <<unitVars, scope, remoteEnabled, now, localWallets, remoteWallets,
                   remoteLast, wallets, isLoading, events>>

\* fetchBalancesBatch rejected: lines 457-461
handleSyncBalancesFailed(i) ==
    /\ ops[i].pc = "sync_fetch"
    /\ ~Blocked
    /\ ops' = [ops EXCEPT ![i] = Alerting(ops[i])]
    /\ UNCHANGED <<unitVars, scope, remoteEnabled, now, localWallets, localLast,
                   remoteWallets, remoteLast, wallets, lastUpdate, isLoading,
                   events>>


\* what the admin panel can submit: newEntries, never empty
UploadAddresses == IF scope = "ledger" THEN {<<"a">>} ELSE {<<"a">>, <<"A">>}

UploadLabels ==
    CASE scope = "ledger" -> {<<>>}
      [] scope = "admin" -> {<<"A">>, <<"B">>, <<>>}
      [] OTHER -> {<<"A">>}

UploadEntries ==
    [1..1 -> [address : UploadAddresses, label : UploadLabels]]

NumStr == <<"1", "2", "3", "4", "5", "6", "7", "8", "9">>

\* `Wallet #${wallets.length + idx + 1}`, idx counting from 0
DefaultLabel(n) == <<"Wallet #", NumStr[n]>>

\* "Upload Addresses": lines 466-469
handleUploadAddresses(i, newEntries) ==
    /\ scope \in {"app", "ledger", "admin"}
    /\ Mounted /\ ~Blocked
    /\ FirstFree(i)
    /\ Budget
    /\ events' = Spend
    /\ isLoading' = TRUE
    /\ ops' = [ops EXCEPT ![i] =
                 [Idle EXCEPT !.kind = "upload", !.pc = "upload_block",
                              !.cur = wallets, !.entries = newEntries]]
    /\ UNCHANGED <<unitVars, scope, remoteEnabled, now, localWallets, localLast,
                   remoteWallets, remoteLast, wallets, lastUpdate>>

\* a registration that gives up when no block height was obtained
handleUploadBlockChecked(i, currentBlock) ==
    /\ ops[i].pc = "upload_block"
    /\ ~Blocked
    /\ ops' = [ops EXCEPT ![i] =
                 IF currentBlock = 0 THEN Alerting(@)
                 ELSE [@ EXCEPT !.pc = "upload_fetch", !.block = currentBlock]]
    /\ UNCHANGED <<unitVars, scope, remoteEnabled, now, localWallets, localLast,
                   remoteWallets, remoteLast, wallets, lastUpdate, isLoading,
                   events>>

\* fetchBlockNumber settled: lines 469-471
handleUploadBlock(i, currentBlock) ==
    /\ ops[i].pc = "upload_block"
    /\ ~Blocked
    /\ ops' = [ops EXCEPT ![i] =
                 [@ EXCEPT !.pc = "upload_fetch", !.block = currentBlock]]
    /\ UNCHANGED <<unitVars, scope, remoteEnabled, now, localWallets, localLast,
                   remoteWallets, remoteLast, wallets, lastUpdate, isLoading,
                   events>>

\* lines 474-488
newWallets(newEntries, known, balancesMap, currentBlock, nowISO) ==
    [k \in DOMAIN newEntries |->
        LET entry == newEntries[k]
            got == MapGet(balancesMap, entry.address)
            bal == IF got \in Balances THEN got ELSE 0
            label == IF Truthy(entry.label) THEN entry.label
                     ELSE DefaultLabel(Len(known) + k)
        IN  [address |-> entry.address, owner |-> label,
             initialBalance |-> bal, initialBlock |-> currentBlock,
             currentBalance |-> bal, lastUpdated |-> nowISO,
             history |-> <<[date |-> nowISO, balance |-> bal]>>]]

\* uniqueMap.set(w.address, w): a known key keeps its place in the Map
MapSet(m, w) ==
    IF \E k \in DOMAIN m : m[k].address = w.address
    THEN [k \in DOMAIN m |-> IF m[k].address = w.address THEN w ELSE m[k]]
    ELSE Append(m, w)

RECURSIVE MapSetAll(_, _)
MapSetAll(m, ws) ==
    IF ws = <<>> THEN m ELSE MapSetAll(MapSet(m, Head(ws)), Tail(ws))

\* lines 491-495: Array.from(uniqueMap.values())
uniqueWallets(known, fresh) == MapSetAll(MapSetAll(<<>>, known), fresh)

\* fetchBalancesBatch resolved: lines 472-498
handleUploadAddressesFetched(i, balancesMap) ==
    /\ ops[i].pc = "upload_fetch"
    /\ ~Blocked
    /\ LET nowISO == toISOString(now)
           fresh == newWallets(ops[i].entries, ops[i].cur, balancesMap,
                               ops[i].block, nowISO)
       IN  Persist(i, ops[i], uniqueWallets(ops[i].cur, fresh), nowISO)
    /\ UNCHANGED <<unitVars, scope, remoteEnabled, now, remoteWallets, remoteLast,
                   events>>

\* fetchBalancesBatch rejected: lines 501-506
handleUploadAddressesFailed(i) ==
    /\ ops[i].pc = "upload_fetch"
    /\ ~Blocked
    /\ ops' = [ops EXCEPT ![i] = Alerting(ops[i])]
    /\ UNCHANGED <<unitVars, scope, remoteEnabled, now, localWallets, localLast,
                   remoteWallets, remoteLast, wallets, lastUpdate, isLoading,
                   events>>

\* the alert is dismissed and the finally block runs: lines 460-461, 504-505
AlertDismissed(i) ==
    /\ ops[i].pc = "alert"
    /\ isLoading' = FALSE
    /\ ops' = [ops EXCEPT ![i] = Idle]
    /\ UNCHANGED <<unitVars, scope, remoteEnabled, now, localWallets, localLast,
                   remoteWallets, remoteLast, wallets, lastUpdate, events>>

\* lines 509-514 (the confirm dialog accepted)
handleDeleteWallet(i, addr) ==
    /\ scope = "app"
    /\ Mounted /\ ~Blocked
    /\ FirstFree(i)
    /\ Budget
    /\ events' = Spend
    /\ addr \in AddressesOf(wallets)
    /\ LET Keep(w) == w.address # addr
           filtered == SelectSeq(wallets, Keep)
           op == [Idle EXCEPT !.kind = "delete", !.cur = filtered]
       IN  /\ wallets' = filtered
           /\ localWallets' = saveWalletsLocal(filtered)
           /\ ops' = [ops EXCEPT ![i] =
                        IF remoteEnabled
                        THEN [op EXCEPT !.pc = "save_upsert", !.attempts = 1]
                        ELSE Idle]
    /\ UNCHANGED <<unitVars, scope, remoteEnabled, now, localLast, remoteWallets,
                   remoteLast, lastUpdate, isLoading>>

\* lines 516-523 (the confirm dialog accepted)
handlePurge(i) ==
    /\ scope = "app"
    /\ Mounted /\ ~Blocked
    /\ FirstFree(i)
    /\ Budget
    /\ events' = Spend
    /\ wallets' = <<>>
    /\ localWallets' = saveWalletsLocal(<<>>)
    /\ LET op == [Idle EXCEPT !.kind = "purge"]
       IN  IF remoteEnabled
           THEN /\ ops' = [ops EXCEPT ![i] =
                             [op EXCEPT !.pc = "save_upsert", !.attempts = 1]]
                /\ UNCHANGED <<lastUpdate, localLast>>
           ELSE /\ lastUpdate' = Missing
                /\ localLast' = Stored(EmptyString)
                /\ ops' = [ops EXCEPT ![i] = Idle]
    /\ UNCHANGED <<unitVars, scope, remoteEnabled, now, remoteWallets, remoteLast,
                   isLoading>>

\* the page is loaded again: React state starts over, the stores persist
Reload ==
    /\ scope = "app"
    /\ Budget
    /\ \A i \in 1..MaxOps : Free(i)
    /\ events' = Spend
    /\ wallets' = <<>>
    /\ lastUpdate' = Missing
    /\ isLoading' = FALSE
    /\ ops' = [i \in 1..MaxOps |-> IF i = 1 THEN MountOp ELSE Idle]
    /\ UNCHANGED <<unitVars, scope, remoteEnabled, now, localWallets, localLast,
                   remoteWallets, remoteLast>>

Horizon == IF scope = "ledger" THEN MaxLedgerTime ELSE MaxTime

\* the calls whose next step reads the clock (new Date())
ReadsClock(i) ==
    ops[i].pc \in {"mount", "last_select", "sync_fetch", "upload_fetch"}

\* time passes; it is observed only by a call that reads the clock
Tick ==
    /\ scope \in {"app", "ledger", "admin"}
    /\ now < Horizon
    /\ \E i \in 1..MaxOps : ReadsClock(i)
    /\ now' = now + 1
    /\ UNCHANGED <<unitVars, scope, remoteEnabled, localWallets, localLast,
                   remoteWallets, remoteLast, wallets, lastUpdate, isLoading,
                   ops, events>>

(***************************************************************************)
(* The application: first start with empty stores.                         *)
(***************************************************************************)
Init ==
    /\ scope = "app"
    /\ remoteEnabled \in BOOLEAN
    /\ now = 0
    /\ localWallets = Missing
    /\ localLast = Missing
    /\ remoteWallets = Missing
    /\ remoteLast = Missing
    /\ wallets = <<>>
    /\ lastUpdate = Missing
    /\ isLoading = FALSE
    /\ ops = [i \in 1..MaxOps |-> IF i = 1 THEN MountOp ELSE Idle]
    /\ events = 0
    /\ fold = NoFold
    /\ client = 0
    /\ fetch = NoFetch
    /\ deleted = {}

Next ==
    \/ Tick
    \/ Reload
    \/ \E i \in Slots : initData(i)
    \/ \E i \in Slots, o \in Outcomes : getWalletsSelect(i, o)
    \/ \E i \in Slots, o \in Outcomes : saveWalletsUpsert(i, o)
    \/ \E i \in Slots, o \in Outcomes : getLastUpdateTimeSelect(i, o)
    \/ \E i \in Slots, o \in Outcomes : setLastUpdateTimeUpsert(i, o)
    \/ \E i \in Slots : handleSyncBalances(i)
    \/ \E i \in Slots :
         \E m \in fetchBalancesBatch(AddressesOf(ops[i].cur)) :
            handleSyncBalancesFetched(i, m)
    \/ \E i \in Slots : handleSyncBalancesFailed(i)
    \/ \E i \in Slots, e \in UploadEntries : handleUploadAddresses(i, e)
    \/ \E i \in Slots, b \in fetchBlockNumber : handleUploadBlock(i, b)
    \/ \E i \in Slots :
         \E m \in fetchBalancesBatch(AddressesOf(ops[i].entries)) :
            handleUploadAddressesFetched(i, m)
    \/ \E i \in Slots : handleUploadAddressesFailed(i)
    \/ \E i \in Slots : AlertDismissed(i)
    \/ \E i \in Slots, a \in Addresses : handleDeleteWallet(i, a)
    \/ \E i \in Slots : handlePurge(i)

Spec == Init /\ [][Next]_vars

(***************************************************************************)
(* The ledger exercised over many days: one address, no remote store.      *)
(***************************************************************************)
InitLedger ==
    /\ scope = "ledger"
    /\ remoteEnabled = FALSE
    /\ now = 0
    /\ localWallets = Missing
    /\ localLast = Missing
    /\ remoteWallets = Missing
    /\ remoteLast = Missing
    /\ wallets = <<>>
    /\ lastUpdate = Missing
    /\ isLoading = FALSE
    /\ ops = [i \in 1..MaxOps |-> IF i = 1 THEN MountOp ELSE Idle]
    /\ events = 0
    /\ fold = NoFold
    /\ client = 0
    /\ fetch = NoFetch
    /\ deleted = {}

NextLedger ==
    \/ Tick
    \/ \E i \in Slots : initData(i)
    \/ \E i \in Slots : handleSyncBalances(i)
    \/ \E i \in Slots :
         \E m \in fetchBalancesBatch(AddressesOf(ops[i].cur)) :
            handleSyncBalancesFetched(i, m)
    \/ \E i \in Slots : handleSyncBalancesFailed(i)
    \/ \E i \in Slots, e \in UploadEntries : handleUploadAddresses(i, e)
    \/ \E i \in Slots, b \in fetchBlockNumber : handleUploadBlock(i, b)
    \/ \E i \in Slots :
         \E m \in fetchBalancesBatch(AddressesOf(ops[i].entries)) :
            handleUploadAddressesFetched(i, m)
    \/ \E i \in Slots : handleUploadAddressesFailed(i)
    \/ \E i \in Slots : AlertDismissed(i)

SpecLedger == InitLedger /\ [][NextLedger]_vars

(***************************************************************************)
(* Properties of the store (SpecStore).                                    *)
(***************************************************************************)
\* a call of the store that has returned, with what it left behind
LoadDone(i) == ops[i].kind = "load" /\ ops[i].pc = "done"

SaveDone(i) == ops[i].kind = "save" /\ ops[i].pc = "done"

ReadFailed(i) == ops[i].read \in {"error", "throw"}

\* C1: load() never loses data: whatever way the remote read ended, every
\* address the remote collection held before load() is still in the remote
\* collection when load() has completed, and every address of the local cache
\* is still in the local cache.
C1_LoadLosesNoAddress ==
    \A i \in 1..MaxOps :
        LoadDone(i) =>
            /\ LowerAddrs(ParseOrEmpty(ops[i].pre.remote))
                  \subseteq LowerAddrs(ParseOrEmpty(remoteWallets))
            /\ LowerAddrs(ParseOrEmpty(ops[i].pre.local))
                  \subseteq LowerAddrs(ParseOrEmpty(localWallets))

\* C2: when the remote read succeeded (a row, or "not found"), load() returns
\* the remote collection followed by exactly the local records whose address,
\* in lower case, no remote record has; the remote records are kept as they are.
C2_ReconciliationResult ==
    \A i \in 1..MaxOps :
        (LoadDone(i) /\ ops[i].read \in {"ok", "notfound"}) =>
            LET remote == ParseOrEmpty(ops[i].pre.remote)
                local == ParseOrEmpty(ops[i].pre.local)
                Absent(w) ==
                    \A k \in DOMAIN remote :
                        toLowerCase(remote[k].address) # toLowerCase(w.address)
            IN  ops[i].ret = remote \o SelectSeq(local, Absent)

\* remote {a, b}, local {b stale, c}: load() returned {a, b of remote, c}
C2_Witness ==
    \E i \in 1..MaxOps :
        /\ LoadDone(i) /\ ops[i].read = "ok"
        /\ ops[i].pre.remote = Stored(<<Seed(<<"a">>, 1), Seed(<<"b">>, 1)>>)
        /\ ops[i].pre.local = Stored(<<Seed(<<"b">>, 0), Seed(<<"c">>, 1)>>)
        /\ ops[i].ret = <<Seed(<<"a">>, 1), Seed(<<"b">>, 1), Seed(<<"c">>, 1)>>

\* C4: when the remote read failed during load() (an error came back, or the
\* request threw), load() returns exactly the collection of the local cache
\* (the empty collection for an absent cache) and returns normally.
C4_FailedReadReturnsLocal ==
    \A i \in 1..MaxOps :
        (LoadDone(i) /\ ReadFailed(i)) =>
            /\ ops[i].result = "ok"
            /\ ops[i].ret = ParseOrEmpty(ops[i].pre.local)

\* the read reported an error while the remote row held other wallets
C4_Witness ==
    \E i \in 1..MaxOps :
        /\ LoadDone(i) /\ ops[i].read = "error"
        /\ ops[i].pre.remote = Stored(<<Seed(<<"a">>, 1)>>)
        /\ ops[i].pre.local = Stored(<<Seed(<<"b">>, 1)>>)
        /\ ops[i].ret = <<Seed(<<"b">>, 1)>>

\* C10: save() has written the local cache when the remote write is attempted;
\* when that write failed (error or exception) the local cache holds the saved
\* collection, save() returned normally, and one remote write was attempted.
C10_SaveLocalFirst ==
    \A i \in 1..MaxOps :
        /\ (ops[i].kind = "save" /\ ops[i].pc = "save_upsert") =>
              /\ localWallets = Stored(ops[i].cur)
              /\ ops[i].attempts = 1
        /\ (SaveDone(i) /\ ops[i].wrote \in {"error", "throw"}) =>
              /\ localWallets = Stored(ops[i].cur)
              /\ ops[i].result = "ok"
              /\ ops[i].attempts = 1

\* a save of a new collection whose remote write threw
C10_Witness ==
    \E i \in 1..MaxOps :
        /\ SaveDone(i) /\ ops[i].wrote = "throw"
        /\ ops[i].cur = <<Seed(<<"a">>, 1)>>
        /\ ops[i].pre.local = Stored(<<Seed(<<"b">>, 1)>>)
        /\ ops[i].pre.remote = Stored(<<Seed(<<"c">>, 1)>>)
        /\ remoteWallets = ops[i].pre.remote

(***************************************************************************)
(* Properties of the application (Spec) and of the ledger (SpecLedger).    *)
(***************************************************************************)
\* every copy of the collection: in memory, cached, remote, held by a call
Collections ==
    {wallets, ParseOrEmpty(localWallets), ParseOrEmpty(remoteWallets)}
        \cup {ops[i].cur : i \in 1..MaxOps}

AllWallets == UNION {{c[k] : k \in DOMAIN c} : c \in Collections}

\* C3: no two records of the in-memory, the cached or the remote collection
\* have the same address, the addresses being compared in lower case.
C3_AddressesUnique ==
    /\ UniqueAddresses(wallets)
    /\ UniqueAddresses(ParseOrEmpty(localWallets))
    /\ UniqueAddresses(ParseOrEmpty(remoteWallets))

\* a sync whose balance request was rejected
SyncFetchFails(i) ==
    /\ ops[i].kind = "sync" /\ ops[i].pc = "sync_fetch"
    /\ ops'[i].pc = "alert"

\* "Sync Now" pressed
SyncStarts(i) ==
    /\ Free(i)
    /\ ops'[i].kind = "sync" /\ ops'[i].pc = "sync_fetch"

\* C5: a syncNow whose fetchBalances fails changes nothing: neither when it
\* starts nor when it aborts does the cached collection, the remote
\* collection, the persisted last-sync timestamp (local and remote) or the
\* in-memory wallet list change.
C5_FailedSyncChangesNothing ==
    [][\A i \in 1..MaxOps :
          (SyncFetchFails(i) \/ SyncStarts(i)) =>
              UNCHANGED <<localWallets, remoteWallets, localLast, remoteLast,
                          wallets, lastUpdate>>]_vars

\* a sync over persisted wallets has just aborted on the balance request
C5_Witness ==
    \E i \in 1..MaxOps :
        /\ ops[i].kind = "sync" /\ ops[i].pc = "alert"
        /\ ops[i].iso = <<>>
        /\ Len(wallets) > 0
        /\ remoteWallets = Stored(wallets)
        /\ localWallets = Stored(wallets)
        /\ remoteLast.present /\ lastUpdate = remoteLast

HistoryAtMost7 == \A w \in AllWallets : Len(w.history) <= MaxHistory

\* a sync folds its observation into the wallets it captured
SyncFolds(i) ==
    /\ ops[i].kind = "sync" /\ ops[i].pc = "sync_fetch"
    /\ ops'[i].pc # "sync_fetch" /\ ops'[i].pc # "alert"

EvictsOldest ==
    \A i \in 1..MaxOps :
        SyncFolds(i) =>
            \A k \in DOMAIN ops[i].cur :
                LET h == ops[i].cur[k].history
                    g == wallets'[k].history
                IN  (Len(h) = MaxHistory
                     /\ DatePrefix(h[Len(h)].date) # DatePrefix(toISOString(now)))
                    => /\ Len(g) = MaxHistory
                       /\ \A j \in 1..(MaxHistory - 1) : g[j] = h[j + 1]
                       /\ g[MaxHistory].date = toISOString(now)

\* C6: the history of every wallet has at most 7 entries in every reachable
\* state, and an append to a history of 7 removes the entry at index 0 and
\* keeps the other six in order.
C6_HistoryBound == []HistoryAtMost7 /\ [][EvictsOldest]_vars

\* registered on day 0 and synced on each of the next 7 days: day 0 is gone
C6_Witness ==
    /\ Len(wallets) = 1
    /\ Len(wallets[1].history) = MaxHistory
    /\ DatePrefix(wallets[1].history[1].date) = 1
    /\ DatePrefix(wallets[1].history[MaxHistory].date) = MaxHistory

\* C7: in every reachable state the dates of each history are strictly
\* increasing and no two entries of one history are of the same UTC day,
\* overlapping registrations and syncs included (the clock never goes back).
C7_HistoryOrdered ==
    \A w \in AllWallets :
        \A j, k \in DOMAIN w.history :
            j < k => /\ getTime(w.history[j].date) < getTime(w.history[k].date)
                     /\ DatePrefix(w.history[j].date)
                           # DatePrefix(w.history[k].date)

\* a sync and a registration are both in flight over a two-day history
C7_Witness ==
    /\ \E i, j \in 1..MaxOps :
          /\ ops[i].kind = "sync" /\ ops[i].pc = "sync_fetch"
          /\ ops[j].kind = "upload" /\ ops[j].pc = "upload_fetch"
          /\ Len(ops[i].cur) > 0 /\ Len(ops[i].cur[1].history) = 2
    /\ now = MaxTime

\* C8: the currentBalance of every wallet, registered or refreshed, is the
\* balance of the last entry of its history.
C8_CurrentBalanceIsLast ==
    \A w \in AllWallets :
        /\ Len(w.history) > 0
        /\ w.currentBalance = w.history[Len(w.history)].balance

\* a wallet refreshed on the day after its registration, with another balance
C8_Witness ==
    /\ Len(wallets) > 0
    /\ Len(wallets[1].history) = 2
    /\ wallets[1].history[1].balance # wallets[1].history[2].balance
    /\ wallets[1].currentBalance = wallets[1].history[2].balance
    /\ wallets[1].initialBalance = wallets[1].history[1].balance

\* initData decides whether a sync is due: its last step
StartDecides(i) ==
    /\ ops[i].kind = "init" /\ ops[i].pc \in {"mount", "last_select"}
    /\ ops'[i].kind # "init"

\* the collection getWallets returned to initData: in one step with the
\* decision when there is no remote store, held by the call otherwise
Loaded(i) == IF ops[i].pc = "mount" THEN wallets' ELSE ops[i].cur

\* C9: on start, over a loaded collection that is not empty, syncNow runs if
\* and only if the last-sync timestamp read from the store is absent or more
\* than 24 hours older than the current time.
C9_AutoSyncIffAbsentOrOld ==
    [][\A i \in 1..MaxOps :
          (StartDecides(i) /\ Len(Loaded(i)) > 0) =>
              LET last == lastUpdate'
                  absent == ~last.present \/ ~Truthy(last.value)
                  old == /\ ~absent
                         /\ now - getTime(last.value) > TicksPerDay
              IN  (ops'[i].kind = "sync") <=> (absent \/ old)]_vars

(***************************************************************************)
(* Remote failures seen by the callers of the store (Spec).                *)
(***************************************************************************)
\* initData receives what getLastUpdateTime returned
LastSyncRead(i) ==
    /\ ops[i].kind = "init" /\ ops[i].pc = "last_select"
    /\ ops'[i].pc # "last_select"

\* a sync or a registration reported as failed after its collection was saved
ReportedAfterSave(i) ==
    /\ ops[i].kind \in {"sync", "upload"}
    /\ ops[i].pc = "alert"
    /\ ops[i].iso # <<>>

\* C11: a failing remote call makes no store operation raise and makes it
\* yield what the local-only store yields: getLastUpdateTime returns the row
\* of the remote store or else the locally cached timestamp, and no sync whose
\* collection was saved is reported as failed because setLastUpdateTime
\* failed.
C11_RemoteFailureLikeLocal ==
    /\ [](\A i \in 1..MaxOps : ~ReportedAfterSave(i))
    /\ [][\A i \in 1..MaxOps :
            LastSyncRead(i) =>
                \/ lastUpdate' = getLastUpdateTime("ok", remoteLast, localLast)
                \/ lastUpdate' = localLast]_vars

\* the addresses of a collection, in its order
AddressList(ws) == [k \in DOMAIN ws |-> ws[k].address]

\* C12: nothing keeps a registration or a deletion from completing while a
\* sync is in flight, and the sync then persists the collection computed from
\* the list it captured when it started: whatever was persisted meanwhile,
\* the in-memory and the cached collection hold exactly the captured
\* addresses after its step, so an address registered meanwhile is lost.
C12_SyncPersistsCapturedList ==
    [][\A i \in 1..MaxOps :
          SyncFolds(i) =>
              /\ AddressList(wallets') = AddressList(ops[i].cur)
              /\ localWallets' = Stored(wallets')]_vars

\* the sync has persisted its one refreshed wallet; a registration started
\* before that still holds the list of two wallets that had been persisted
C12_Witness ==
    /\ ~remoteEnabled
    /\ Len(wallets) = 1
    /\ Len(wallets[1].history) = 2
    /\ localWallets = Stored(wallets)
    /\ \A i \in 1..MaxOps : ops[i].kind # "sync"
    /\ \E j \in 1..MaxOps :
          /\ ops[j].kind = "upload"
          /\ Len(ops[j].cur) = 2
          /\ ops[j].cur[1].address = wallets[1].address
          /\ Len(ops[j].cur[1].history) = 1

(***************************************************************************)
(* HistoryLedger on its own: updateWalletHistory over any history of at    *)
(* most 7 days and any observation (SpecFold).                             *)
(***************************************************************************)
\* the histories of n consecutive days, any balances, any time of the last day
FoldHistories ==
    UNION {{[j \in 1..n |->
                [date |-> <<j - 1, IF j = n THEN tod ELSE 0>>,
                 balance |-> bs[j]]] :
              bs \in [1..n -> 0..MaxBal], tod \in 0..(TicksPerDay - 1)} :
           n \in 0..MaxHistory}

\* a wallet record holding the history h
FoldWallet(h) ==
    [address |-> <<"a">>, owner |-> <<"S">>, initialBalance |-> 0,
     initialBlock |-> 1,
     currentBalance |-> IF h = <<>> THEN 0 ELSE h[Len(h)].balance,
     lastUpdated |-> IF h = <<>> THEN toISOString(0) ELSE h[Len(h)].date,
     history |-> h]

InitFold ==
    /\ scope = "fold"
    /\ remoteEnabled = FALSE
    /\ now = 0
    /\ localWallets = Missing
    /\ localLast = Missing
    /\ remoteWallets = Missing
    /\ remoteLast = Missing
    /\ wallets = <<>>
    /\ lastUpdate = Missing
    /\ isLoading = FALSE
    /\ ops = [i \in 1..MaxOps |-> Idle]
    /\ events = 0
    /\ \E h \in FoldHistories :
          fold = [pc |-> "input", wallet |-> FoldWallet(h), balance |-> 0,
                  date |-> toISOString(0), once |-> FoldWallet(h),
                  twice |-> FoldWallet(h)]
    /\ client = 0
    /\ fetch = NoFetch
    /\ deleted = {}

\* updateWalletHistory(wallet, newBalance, currentDate)
updateOnce(newBalance, t) ==
    /\ scope = "fold"
    /\ fold.pc = "input"
    /\ LET out == updateWalletHistory(fold.wallet, newBalance, toISOString(t))
       IN  fold' = [fold EXCEPT !.pc = "once", !.balance = newBalance,
                                !.date = toISOString(t), !.once = out,
                                !.twice = out]
    /\ UNCHANGED <<deleted, scope, remoteEnabled, now, localWallets, localLast,
                   remoteWallets, remoteLast, wallets, lastUpdate, isLoading,
                   ops, events, client, fetch>>

\* the same observation folded into the result once more
updateTwice ==
    /\ scope = "fold"
    /\ fold.pc = "once"
    /\ fold' = [fold EXCEPT !.pc = "twice",
                            !.twice = updateWalletHistory(fold.once,
                                                          fold.balance,
                                                          fold.date)]
    /\ UNCHANGED <<deleted, scope, remoteEnabled, now, localWallets, localLast,
                   remoteWallets, remoteLast, wallets, lastUpdate, isLoading,
                   ops, events, client, fetch>>

NextFold ==
    \/ \E b \in 0..MaxBal, t \in 0..MaxLedgerTime : updateOnce(b, t)
    \/ updateTwice

SpecFold == InitFold /\ [][NextFold]_vars

\* the observation has been folded into fold.wallet
Folded == fold.pc \in {"once", "twice"}

FoldEntry == [date |-> fold.date, balance |-> fold.balance]

SameDayAsLast ==
    /\ Len(fold.wallet.history) >= 1
    /\ DatePrefix(fold.wallet.history[Len(fold.wallet.history)].date)
          = DatePrefix(fold.date)

\* C13: when the last entry of a history of 1..7 entries is of the day of
\* the observation, fold replaces that entry by {timestamp, new balance},
\* keeps every earlier entry and keeps the length.
C13_SameDayReplace ==
    (Folded /\ SameDayAsLast) =>
        LET h == fold.wallet.history
            g == fold.once.history
        IN  /\ Len(g) = Len(h)
            /\ \A j \in 1..(Len(h) - 1) : g[j] = h[j]
            /\ g[Len(h)] = FoldEntry

\* a full week whose last entry is replaced by another balance, later that day
C13_Witness ==
    /\ Folded /\ SameDayAsLast
    /\ Len(fold.wallet.history) = MaxHistory
    /\ fold.wallet.history[MaxHistory].balance # fold.balance
    /\ fold.wallet.history[MaxHistory].date # fold.date
    /\ fold.once.history[MaxHistory] = FoldEntry

\* C14: when the last entry of a history of at most 7 entries is of another
\* day than the observation, fold appends the observation as the last entry:
\* up to 6 entries the result is the history plus the observation, and from 7
\* entries it is entries 2..7 in order plus the observation, 7 entries again
\* (the entry that was at index 0 is the one that left).
C14_NewDayAppend ==
    (Folded /\ ~SameDayAsLast) =>
        LET h == fold.wallet.history
            g == fold.once.history
        IN  IF Len(h) < MaxHistory
            THEN g = h \o <<FoldEntry>>
            ELSE /\ Len(g) = MaxHistory
                 /\ \A j \in 1..(MaxHistory - 1) : g[j] = h[j + 1]
                 /\ g[MaxHistory] = FoldEntry

\* a full week of days 0..6 and an observation on day 7: day 0 is dropped
C14_Witness ==
    /\ Folded /\ ~SameDayAsLast
    /\ Len(fold.wallet.history) = MaxHistory
    /\ DatePrefix(fold.date) = MaxHistory
    /\ DatePrefix(fold.once.history[1].date) = 1
    /\ Len(fold.once.history) = MaxHistory

\* C15: folding the same balance and timestamp a second time changes nothing:
\* fold(fold(w, b, t), b, t) = fold(w, b, t).
C15_FoldIdempotent == (fold.pc = "twice") => fold.twice = fold.once

\* a full week, a new day: the first fold evicts, the second replaces
C15_Witness ==
    /\ fold.pc = "twice"
    /\ Len(fold.wallet.history) = MaxHistory
    /\ ~SameDayAsLast
    /\ fold.once # fold.wallet
    /\ fold.twice = fold.once

(***************************************************************************)
(* The admin panel exercised on its own: registrations with any label, one *)
(* at a time, no remote store (SpecAdmin).                                 *)
(***************************************************************************)
InitAdmin ==
    /\ scope = "admin"
    /\ remoteEnabled = FALSE
    /\ now = 0
    /\ localWallets = Missing
    /\ localLast = Missing
    /\ remoteWallets = Missing
    /\ remoteLast = Missing
    /\ wallets = <<>>
    /\ lastUpdate = Missing
    /\ isLoading = FALSE
    /\ ops = [i \in 1..MaxOps |-> IF i = 1 THEN MountOp ELSE Idle]
    /\ events = 0
    /\ fold = NoFold
    /\ client = 0
    /\ fetch = NoFetch
    /\ deleted = {}

NextAdmin ==
    \/ Tick
    \/ \E i \in Slots : initData(i)
    \/ \E i \in Slots, e \in UploadEntries : handleUploadAddresses(i, e)
    \/ \E i \in Slots, b \in fetchBlockNumber : handleUploadBlock(i, b)
    \/ \E i \in Slots :
         \E m \in fetchBalancesBatch(AddressesOf(ops[i].entries)) :
            handleUploadAddressesFetched(i, m)
    \/ \E i \in Slots : handleUploadAddressesFailed(i)
    \/ \E i \in Slots : AlertDismissed(i)

SpecAdmin == InitAdmin /\ [][NextAdmin]_vars

\* a registration persists its collection
UploadPersists(i) ==
    /\ ops[i].kind = "upload" /\ ops[i].pc = "upload_fetch"
    /\ ops'[i].pc # "upload_fetch" /\ ops'[i].pc # "alert"

\* the records of a collection that are of the address addr
RecordsOf(ws, addr) ==
    {k \in DOMAIN ws : toLowerCase(ws[k].address) = toLowerCase(addr)}

\* C16: registering an address that the collection already holds, with a
\* label B, leaves exactly one record of that address in the collection,
\* and the label of that record is B.
C16_ReRegistrationNewWins ==
    [][\A i \in 1..MaxOps :
          UploadPersists(i) =>
              \A k \in DOMAIN ops[i].entries :
                  LET e == ops[i].entries[k]
                  IN  (RecordsOf(ops[i].cur, e.address) # {}
                       /\ Truthy(e.label))
                      => /\ Cardinality(RecordsOf(wallets', e.address)) = 1
                         /\ \A r \in RecordsOf(wallets', e.address) :
                                wallets'[r].owner = e.label]_vars

(***************************************************************************)
(* ChainBalanceReader on its own: one fetchBalancesBatch over 0..250       *)
(* addresses, chunk by chunk, while the client may be replaced             *)
(* (SpecReader).                                                           *)
(***************************************************************************)
\* the addresses of a request are told apart by their number
ReaderAddresses(n) == [k \in 1..n |-> k]

\* balanceOf(addr) on the chain, in DAI
balanceOf(addr) == 1 + (addr % (MaxBal + 1))

Min(a, b) == IF a < b THEN a ELSE b

\* a slice that takes everything from i on
chunkCallsToEnd(addresses, i) == SubSeq(addresses, i + 1, Len(addresses))

\* calls.slice(i, i + CHUNK_SIZE), i counting from 0
chunkCalls(addresses, i) ==
    SubSeq(addresses, i + 1, Min(i + CHUNK_SIZE, Len(addresses)))

\* the sub-calls of a chunk that report success = false: none, the first one,
\* the last one, or each of them
FailedSubCalls(size) == {{}, {1}, {size}, 1..size}

\* what aggregate3 returns for a chunk (allowFailure: true)
aggregate3(calls, failed) ==
    [k \in DOMAIN calls |->
        [success |-> k \notin failed,
         returnData |-> IF k \in failed THEN 0 ELSE balanceOf(calls[k])]]

\* a loop that sets nothing for a sub-call that failed
setChunkSucceeded(resultsMap, calls, results) ==
    LET fresh == {calls[k] : k \in {j \in DOMAIN calls : results[j].success}}
        At(a) == CHOOSE k \in DOMAIN calls : calls[k] = a
    IN  [a \in DOMAIN resultsMap \cup fresh |->
            IF a \in fresh THEN results[At(a)].returnData ELSE resultsMap[a]]

\* lines 62-78: resultsMap.set for every sub-call of the chunk
setChunk(resultsMap, calls, results) ==
    LET fresh == {calls[k] : k \in DOMAIN calls}
        Last(a) == CHOOSE k \in DOMAIN calls :
                      /\ calls[k] = a
                      /\ \A j \in DOMAIN calls : calls[j] = a => j <= k
    IN  [a \in DOMAIN resultsMap \cup fresh |->
            IF a \in fresh
            THEN IF results[Last(a)].success
                 THEN results[Last(a)].returnData
                 ELSE 0
            ELSE resultsMap[a]]

\* line 55: client.readContract, on the client of this moment
readContract(f, i) ==
    [f EXCEPT !.pc = "await", !.i = i,
              !.requests = Append(@, [endpoint |-> client,
                                      calls |-> chunkCalls(f.addresses, i)])]

\* lines 31-55: the call, up to its first await
fetchBalancesBatchCall(n) ==
    /\ scope = "reader"
    /\ fetch.pc = "none"
    /\ LET f == [fetch EXCEPT !.addresses = ReaderAddresses(n),
                              !.began = client]
       IN  fetch' = IF n = 0
                    THEN [f EXCEPT !.pc = "resolved"]
                    ELSE readContract(f, 0)
    /\ UNCHANGED <<deleted, scope, remoteEnabled, now, localWallets, localLast,
                   remoteWallets, remoteLast, wallets, lastUpdate, isLoading,
                   ops, events, fold, client>>

\* the chunk of the aggregate3 call that is awaited
pendingCalls ==
    IF fetch.pc = "await"
    THEN fetch.requests[Len(fetch.requests)].calls
    ELSE <<>>

\* the aggregate3 call of a chunk resolved: lines 62-81
aggregate3Resolved(failed) ==
    /\ fetch.pc = "await"
    /\ LET calls == pendingCalls
           results == aggregate3(calls, failed)
           f == [fetch EXCEPT
                    !.resultsMap = setChunk(@, calls, results),
                    !.results = Append(@, results)]
           next == fetch.i + CHUNK_SIZE
       IN  fetch' = IF next < Len(fetch.addresses)
                    THEN readContract(f, next)
                    ELSE [f EXCEPT !.pc = "resolved", !.i = next,
                                   !.returned = f.resultsMap]
    /\ UNCHANGED <<deleted, scope, remoteEnabled, now, localWallets, localLast,
                   remoteWallets, remoteLast, wallets, lastUpdate, isLoading,
                   ops, events, fold, client>>

\* a catch block that returns what the earlier chunks gave
aggregate3RejectedPartial ==
    /\ fetch.pc = "await"
    /\ fetch' = [fetch EXCEPT !.pc = "rejected", !.returned = fetch.resultsMap]
    /\ UNCHANGED <<deleted, scope, remoteEnabled, now, localWallets, localLast,
                   remoteWallets, remoteLast, wallets, lastUpdate, isLoading,
                   ops, events, fold, client>>

\* the aggregate3 call of a chunk rejected: lines 83-86
aggregate3Rejected ==
    /\ fetch.pc = "await"
    /\ fetch' = [fetch EXCEPT !.pc = "rejected"]
    /\ UNCHANGED <<deleted, scope, remoteEnabled, now, localWallets, localLast,
                   remoteWallets, remoteLast, wallets, lastUpdate, isLoading,
                   ops, events, fold, client>>

\* lines 9-16: a new client for the endpoint saved last
reinitializeClient ==
    /\ scope = "reader"
    /\ client < MaxReinit
    /\ client' = client + 1
    /\ UNCHANGED <<deleted, scope, remoteEnabled, now, localWallets, localLast,
                   remoteWallets, remoteLast, wallets, lastUpdate, isLoading,
                   ops, events, fold, fetch>>

InitReader ==
    /\ scope = "reader"
    /\ remoteEnabled = FALSE
    /\ now = 0
    /\ localWallets = Missing
    /\ localLast = Missing
    /\ remoteWallets = Missing
    /\ remoteLast = Missing
    /\ wallets = <<>>
    /\ lastUpdate = Missing
    /\ isLoading = FALSE
    /\ ops = [i \in 1..MaxOps |-> Idle]
    /\ events = 0
    /\ fold = NoFold
    /\ client = 0
    /\ fetch = NoFetch
    /\ deleted = {}

NextReader ==
    \/ \E n \in 0..MaxAddresses : fetchBalancesBatchCall(n)
    \/ \E failed \in FailedSubCalls(Len(pendingCalls)) :
          aggregate3Resolved(failed)
    \/ aggregate3Rejected
    \/ reinitializeClient

SpecReader == InitReader /\ [][NextReader]_vars

Resolved == fetch.pc = "resolved"

Rejected == fetch.pc = "rejected"

\* ceil(n / CHUNK_SIZE)
Chunks(n) == (n + CHUNK_SIZE - 1) \div CHUNK_SIZE

\* C17: a fetchBalances over n addresses that resolved has issued exactly
\* ceil(n/100) aggregator calls; the c-th carries the addresses
\* 100(c-1)+1 .. min(100c, n) in input order, so at most 100 sub-calls and
\* exactly 100 in all but the last; for n = 0 no call is issued and the empty
\* mapping is returned.
C17_ChunkedRequests ==
    Resolved =>
        LET n == Len(fetch.addresses)
            reqs == fetch.requests
        IN  /\ Len(reqs) = Chunks(n)
            /\ \A c \in DOMAIN reqs :
                  /\ Len(reqs[c].calls) <= CHUNK_SIZE
                  /\ c < Len(reqs) => Len(reqs[c].calls) = CHUNK_SIZE
                  /\ \A k \in DOMAIN reqs[c].calls :
                        reqs[c].calls[k]
                           = fetch.addresses[CHUNK_SIZE * (c - 1) + k]
            /\ n = 0 => (reqs = <<>> /\ DOMAIN fetch.returned = {})

\* 250 addresses went out as 100, 100 and 50
C17_Witness ==
    /\ Resolved
    /\ Len(fetch.addresses) = 250
    /\ Len(fetch.requests) = 3
    /\ Len(fetch.requests[1].calls) = 100
    /\ Len(fetch.requests[2].calls) = 100
    /\ Len(fetch.requests[3].calls) = 50

\* C18: when every chunk call succeeded the returned mapping has exactly the
\* input addresses as keys; an address whose sub-call reported success =
\* false is bound to 0, every other address to the balance its own sub-call
\* returned, whatever the other sub-calls of its chunk did.
C18_MappingOfEveryAddress ==
    Resolved =>
        /\ DOMAIN fetch.returned
              = {fetch.addresses[k] : k \in DOMAIN fetch.addresses}
        /\ \A c \in DOMAIN fetch.requests :
              \A k \in DOMAIN fetch.requests[c].calls :
                  fetch.returned[fetch.requests[c].calls[k]]
                     = IF fetch.results[c][k].success
                       THEN fetch.results[c][k].returnData
                       ELSE 0

\* the first sub-call of the second chunk failed, its neighbour did not
C18_Witness ==
    /\ Resolved
    /\ Len(fetch.addresses) = 250
    /\ ~fetch.results[2][1].success
    /\ fetch.results[2][2].success
    /\ fetch.returned[101] = 0
    /\ fetch.returned[102] = balanceOf(102)
    /\ balanceOf(102) > 0

\* C19: when the aggregator call of a chunk fails, fetchBalances fails as a
\* whole: it returns no mapping, whatever the earlier chunks gave, and it
\* has requested no chunk after the failed one and never requests one.
C19_ChunkFailureFailsAll ==
    /\ [](Rejected =>
             /\ fetch.returned = NoFetch.returned
             /\ Len(fetch.requests) = (fetch.i \div CHUNK_SIZE) + 1
             /\ Len(fetch.results) = Len(fetch.requests) - 1)
    /\ [][Rejected => fetch' = fetch]_vars

\* the second of three chunks failed after the first had been decoded
C19_Witness ==
    /\ Rejected
    /\ Len(fetch.addresses) = 250
    /\ Len(fetch.requests) = 2
    /\ DOMAIN fetch.resultsMap = 1..100
    /\ fetch.returned = <<>>

\* C20: every chunk request of a fetchBalances goes to the endpoint that was
\* current when the call started, also after reinitializeClient.
C20_RequestsUseStartEndpoint ==
    \A c \in DOMAIN fetch.requests : fetch.requests[c].endpoint = fetch.began

(***************************************************************************)
(* Properties of the store over an unparseable cache (SpecCorrupt).        *)
(***************************************************************************)
\* C21: a load() that found an unparseable text in the local cache returns
\* the empty collection and returns normally, without a remote store and with
\* one, whether the remote read succeeded or failed.
C21_UnparseableCacheLoadsEmpty ==
    \A i \in 1..MaxOps :
        (LoadDone(i) /\ ParseThrows(ops[i].pre.local)) =>
            /\ ops[i].result = "ok"
            /\ ops[i].ret = <<>>

(***************************************************************************)
(* Properties of registration and of the loading flag.                     *)
(***************************************************************************)
\* C22: a registration goes on to its balance request whatever
\* fetchBlockNumber returned, 0 (the request failed) included, and every
\* record it stores carries that value as initialBlock.
C22_BlockFailureStoresZero ==
    [][\A i \in 1..MaxOps :
          /\ (ops[i].pc = "upload_block" /\ ops'[i] # ops[i]) =>
                /\ ops'[i].pc = "upload_fetch"
                /\ ops'[i].block \in fetchBlockNumber
          /\ UploadPersists(i) =>
                \A k \in DOMAIN ops[i].entries :
                    \E j \in DOMAIN wallets' :
                        /\ wallets'[j].address = ops[i].entries[k].address
                        /\ wallets'[j].initialBlock = ops[i].block]_vars

\* a record registered while the block request failed is stored with block 0
C22_Witness ==
    /\ Len(wallets) = 1
    /\ wallets[1].initialBlock = 0
    /\ localWallets = Stored(wallets)
    /\ \A i \in 1..MaxOps : Free(i)

(***************************************************************************)
(* Properties of reconciliation (SpecStore).                               *)
(***************************************************************************)
\* the remote read of a load() succeeded: a row came back, or "not found"
ReadOk(i) == ops[i].read \in {"ok", "notfound"}

\* some record of the cache has an address no record of the remote row has
LocalHasNew(i) ==
    LET remote == ParseOrEmpty(ops[i].pre.remote)
        local == ParseOrEmpty(ops[i].pre.local)
    IN  \E k \in DOMAIN local :
            toLowerCase(local[k].address) \notin LowerAddrs(remote)

\* C23: a load() whose remote read succeeded attempts one remote write when
\* a local record was appended and none otherwise: when every local address
\* is in the remote collection, or the cache is empty or absent, the remote
\* row is not written.
C23_WriteBackIffAppended ==
    \A i \in 1..MaxOps :
        (LoadDone(i) /\ ReadOk(i)) =>
            /\ ops[i].attempts = (IF LocalHasNew(i) THEN 1 ELSE 0)
            /\ LocalHasNew(i) <=>
                  Len(ops[i].ret) > Len(ParseOrEmpty(ops[i].pre.remote))
            /\ ~LocalHasNew(i) =>
                  /\ ops[i].wrote = "none"
                  /\ remoteWallets = ops[i].pre.remote

\* the cache held an older record of the one remote address: nothing written
C23_Witness ==
    \E i \in 1..MaxOps :
        /\ LoadDone(i) /\ ops[i].read = "ok"
        /\ ops[i].pre.local = Stored(<<Seed(<<"b">>, 0)>>)
        /\ ops[i].pre.remote = Stored(<<Seed(<<"b">>, 1)>>)
        /\ ops[i].attempts = 0
        /\ remoteWallets = ops[i].pre.remote

\* C24: when a load() whose remote read succeeded has completed, the local
\* cache holds the collection load() returned, whether the write of the
\* merged collection to the remote row succeeded, failed or was not needed.
C24_CacheEqualsReturned ==
    \A i \in 1..MaxOps :
        (LoadDone(i) /\ ReadOk(i)) => localWallets = Stored(ops[i].ret)

\* the merged collection could not be written back, yet it is cached
C24_Witness ==
    \E i \in 1..MaxOps :
        /\ LoadDone(i) /\ ops[i].read = "ok" /\ ops[i].wrote = "throw"
        /\ ops[i].pre.remote = Stored(<<Seed(<<"a">>, 1)>>)
        /\ ops[i].pre.local = Stored(<<Seed(<<"b">>, 1)>>)
        /\ remoteWallets = ops[i].pre.remote
        /\ localWallets = Stored(<<Seed(<<"a">>, 1), Seed(<<"b">>, 1)>>)

(***************************************************************************)
(* Properties of a sync that succeeded (Spec).                             *)
(***************************************************************************)
\* every wallet of ws was observed at iso: lastUpdated and last history entry
StampedAt(ws, iso) ==
    \A k \in DOMAIN ws :
        /\ ws[k].lastUpdated = iso
        /\ Len(ws[k].history) > 0
        /\ ws[k].history[Len(ws[k].history)].date = iso

\* saveWallets returned to a sync, which goes on to store its timestamp
SyncSaved(i) ==
    /\ ops[i].kind = "sync" /\ ops[i].pc = "save_upsert"
    /\ ops'[i].pc # "save_upsert"

\* the timestamp of a sync reached the remote row
SyncStamped(i) ==
    /\ ops[i].kind = "sync" /\ ops[i].pc = "last_upsert"
    /\ ops'[i].pc # "last_upsert"
    /\ remoteLast' # remoteLast

\* initData called handleSyncBalances(loaded) over an empty collection
StartOverEmpty(i) == StartDecides(i) /\ Len(Loaded(i)) = 0

\* C25: a sync runs over a collection that is not empty; the collection it
\* persists has every wallet stamped with one timestamp, in lastUpdated and
\* in its last history entry, and the last-sync timestamp it persists, in
\* the cache and in the remote row, is that timestamp; handleSyncBalances
\* over an empty collection starts no sync and changes no store.
C25_SyncSharedTimestamp ==
    /\ [](\A i \in 1..MaxOps :
             (ops[i].kind = "sync" /\ ops[i].pc \in {"sync_fetch", "save_upsert"})
                => Len(ops[i].cur) > 0)
    /\ [][\A i \in 1..MaxOps :
            /\ SyncFolds(i) =>
                  /\ StampedAt(wallets', toISOString(now))
                  /\ localWallets' = Stored(wallets')
                  /\ IF remoteEnabled
                     THEN /\ ops'[i].iso = toISOString(now)
                          /\ ops'[i].cur = wallets'
                     ELSE /\ localLast' = Stored(toISOString(now))
                          /\ lastUpdate' = localLast'
            /\ SyncSaved(i) =>
                  /\ StampedAt(ops[i].cur, ops[i].iso)
                  /\ remoteWallets' \in {remoteWallets, Stored(ops[i].cur)}
                  /\ localLast' = Stored(ops[i].iso)
                  /\ lastUpdate' = localLast'
                  /\ ops'[i].iso = ops[i].iso
            /\ SyncStamped(i) => remoteLast' = Stored(ops[i].iso)
            /\ StartOverEmpty(i) =>
                  /\ ops'[i].kind # "sync"
                  /\ UNCHANGED <<localWallets, remoteWallets, localLast,
                                 remoteLast, wallets, isLoading>>]_vars

\* two wallets registered at different times carry the timestamp of one sync
C25_Witness ==
    /\ Len(wallets) = 2
    /\ wallets[1].history[1].date # wallets[2].history[1].date
    /\ \A k \in DOMAIN wallets : Len(wallets[k].history) = 2
    /\ localLast.present
    /\ StampedAt(wallets, localLast.value)
    /\ localWallets = Stored(wallets)
    /\ \A i \in 1..MaxOps : Free(i)

(***************************************************************************)
(* Properties of deletion across clients (SpecClients).                    *)
(***************************************************************************)
\* C26: an address another client deleted from the remote collection is in
\* the remote collection in no later state, whatever loads this client runs
\* over a cache that still holds the address.
C26_DeletionDurable ==
    \A x \in deleted : x \notin LowerAddrs(ParseOrEmpty(remoteWallets))

\* a sync or a registration has started and not yet run its finally block
InFlight(i) == ops[i].kind \in {"sync", "upload"} /\ ~Free(i)

\* C27: isLoading is true in every state in which a sync or a registration
\* is in flight, and false in every state in which none is.
C27_LoadingWhileInFlight == isLoading <=> \E i \in 1..MaxOps : InFlight(i)

\* a load that follows a load whose remote calls succeeded, the remote row
\* being as that load left it
LoadedAgain(i) ==
    /\ LoadDone(i)
    /\ ops[i].prev.settled
    /\ ParseOrEmpty(ops[i].pre.remote) = ops[i].prev.ret

\* C28: a second load() after a load() whose remote calls succeeded, with no
\* write to the remote row in between and its own read succeeding, returns
\* the collection the first returned, writes nothing to the remote row, and
\* leaves the cache and the remote row holding that same collection.
C28_SecondLoadSame ==
    [][\A i \in 1..MaxOps :
          (~LoadDone(i) /\ LoadedAgain(i)' /\ ReadOk(i)') =>
              /\ ops'[i].ret = ops[i].prev.ret
              /\ ops'[i].attempts = 0
              /\ remoteWallets' = ops[i].pre.remote
              /\ ParseOrEmpty(localWallets') = ops'[i].ret
              /\ ParseOrEmpty(remoteWallets') = ops'[i].ret]_vars

\* the first load had appended the cached wallet and written the row; the
\* second found nothing to append
C28_Witness ==
    \E i \in 1..MaxOps :
        /\ LoadedAgain(i) /\ ops[i].read = "ok"
        /\ deleted # {}
        /\ Len(ops[i].ret) = 2
        /\ toLowerCase(ops[i].ret[2].address) \in deleted
        /\ localWallets = remoteWallets

\* the fields of a record that a sync has no business with
Identity(w) ==
    [address |-> w.address, owner |-> w.owner,
     initialBalance |-> w.initialBalance, initialBlock |-> w.initialBlock]

\* C29: the collection a sync computes has the records of the list the sync
\* was given, one for one and in the same order, each with its address,
\* owner, initialBalance and initialBlock as they were; only currentBalance,
\* lastUpdated and history may differ.
C29_SyncKeepsIdentity ==
    [][\A i \in 1..MaxOps :
          SyncFolds(i) =>
              /\ DOMAIN wallets' = DOMAIN ops[i].cur
              /\ \A k \in DOMAIN ops[i].cur :
                    /\ Identity(wallets'[k]) = Identity(ops[i].cur[k])
                    /\ DOMAIN wallets'[k] = DOMAIN ops[i].cur[k]
              /\ localWallets' = Stored(wallets')]_vars

\* a synced wallet whose balance moved away from its initial balance
C29_Witness ==
    /\ Len(wallets) = 2
    /\ wallets[1].currentBalance # wallets[1].initialBalance
    /\ Len(wallets[1].history) = 2
    /\ wallets[1].lastUpdated = wallets[2].lastUpdated
    /\ wallets[1].history[1].balance = wallets[1].initialBalance
    /\ wallets[1].owner = <<"A">>
    /\ lastUpdate = Stored(wallets[1].lastUpdated)
    /\ \A i \in 1..MaxOps : Free(i)

\* the record is what a registration at iso over block makes of an address
FreshRecord(w, iso, block) ==
    /\ w.history = <<[date |-> iso, balance |-> w.currentBalance]>>
    /\ w.initialBalance = w.currentBalance
    /\ w.initialBlock = block
    /\ w.lastUpdated = iso

\* C30: after a registration every record of an uploaded address is the new
\* one: a history of exactly the new observation, and initialBalance,
\* initialBlock, currentBalance and lastUpdated taken from it, whatever the
\* collection held of that address before; the records of the other
\* addresses are as they were.
C30_ReRegistrationReplacesRecord ==
    [][\A i \in 1..MaxOps :
          UploadPersists(i) =>
              LET uploaded == {toLowerCase(ops[i].entries[k].address) :
                                  k \in DOMAIN ops[i].entries}
              IN  \A j \in DOMAIN wallets' :
                      IF toLowerCase(wallets'[j].address) \in uploaded
                      THEN FreshRecord(wallets'[j], toISOString(now),
                                       ops[i].block)
                      ELSE \E k \in DOMAIN ops[i].cur :
                              wallets'[j] = ops[i].cur[k]]_vars

=============================================================================
